---- MODULE Spec2Model ----
(***************************************************************************)
(* The donation ledger of src/js/main.js: AppState.donations and           *)
(* AppState.stats, the DonationTracker operations on them, SafeStorage,    *)
(* and the page start-up that runs initializeApp.                          *)
(*                                                                         *)
(* Time is the reading of Date.now(), counted in ticks; TicksPerMonth      *)
(* ticks make a calendar month.  Every handler runs to completion at one   *)
(* reading of the clock; the clock advances between handlers.              *)
(***************************************************************************)
EXTENDS Integers, Sequences, FiniteSets, TLC

(* ------------------------------ bounds -------------------------------- *)

\* Largest number of records the ledger holds in the model.
MaxDonations == 3

\* Last tick of the clock in the model.
MaxTime == 2

\* Ticks in one calendar month.
TicksPerMonth == 2

(* -------------------------- program constants -------------------------- *)

\* Date.prototype.getMonth() ranges over 0..11.
MonthsPerYear == 12

\* Date.now() counts from the first instant of 1970.
EpochYear == 1970

\* viewStats shows this many records of the history.
HistoryShown == 5

(* ------------------------------ numbers ------------------------------- *)

\* A JavaScript number: an integer-valued double, or NaN.
Num(n) == [nan |-> FALSE, v |-> n]

NaN == [nan |-> TRUE, v |-> 0]

\* a + b of JavaScript: NaN absorbs.
Plus(a, b) == IF a.nan \/ b.nan THEN NaN ELSE Num(a.v + b.v)

(* ------------------------------ strings ------------------------------- *)

\* The value of an argument or property that was not given.
Undefined == "<undefined>"

\* x || dflt on strings: undefined and the empty string are falsy.
OrDefault(x, dflt) == IF x \in {Undefined, ""} THEN dflt ELSE x

Digits == <<"0", "1", "2", "3", "4", "5", "6", "7", "8", "9">>

IsDigit(c) == \E i \in 1..Len(Digits) : Digits[i] = c

DigitVal(c) == (CHOOSE i \in 1..Len(Digits) : Digits[i] = c) - 1

\* The longest prefix of s made of decimal digits.
RECURSIVE DigitPrefix(_)
DigitPrefix(s) ==
    IF s = <<>> \/ ~IsDigit(Head(s)) THEN <<>>
    ELSE <<Head(s)>> \o DigitPrefix(Tail(s))

\* The value of a sequence of decimal digits.
RECURSIVE Decimal(_)
Decimal(ds) ==
    IF ds = <<>> THEN 0
    ELSE 10 * Decimal(SubSeq(ds, 1, Len(ds) - 1)) + DigitVal(ds[Len(ds)])

\* parseFloat on the characters of its argument (a number argument is first
\* turned into its decimal text): an optional sign, then the longest run of
\* digits; NaN when there is none.  The inputs of the model carry no
\* fraction or exponent.
ParseFloat(s) ==
    LET signed == s # <<>> /\ Head(s) \in {"-", "+"}
        body == IF signed THEN Tail(s) ELSE s
        ds == DigitPrefix(body)
    IN  IF ds = <<>> THEN NaN
        ELSE IF signed /\ Head(s) = "-" THEN Num(0 - Decimal(ds))
        ELSE Num(Decimal(ds))

(* ------------------------------- dates -------------------------------- *)

TicksPerYear == MonthsPerYear * TicksPerMonth

\* new Date().getMonth() at clock reading t.
GetMonth(t) == (t \div TicksPerMonth) % MonthsPerYear

\* new Date().getFullYear() at clock reading t.
GetFullYear(t) == EpochYear + (t \div TicksPerYear)

\* new Date().toISOString() at clock reading t: the calendar fields, most
\* significant first.
ToISOString(t) ==
    <<GetFullYear(t), GetMonth(t) + 1, t % TicksPerMonth>>

\* new Date(iso): the clock reading an ISO text denotes.
DateParse(iso) ==
    (iso[1] - EpochYear) * TicksPerYear + (iso[2] - 1) * TicksPerMonth + iso[3]

(* ------------------------------- inputs ------------------------------- *)

\* The arguments of window.addDonation(amount, tool, method, contributor)
\* tried by the model.  An amount is given by its characters.
DonationInputs ==
    { [amount |-> <<"2", "5">>, tool |-> "Alpha", method |-> "Ko-fi",
       contributor |-> "Sam"],
      [amount |-> <<"1", "0">>, tool |-> Undefined, method |-> Undefined,
       contributor |-> "Sam"],
      [amount |-> <<"a", "b", "c">>, tool |-> "Beta", method |-> "Crypto",
       contributor |-> Undefined] }

(* ------------------------------- state -------------------------------- *)

VARIABLES
    now,            \* the reading of the clock
    pc,             \* how far page start-up has got
    initialized,    \* AppState.initialized
    theme,          \* AppState.theme
    themeListeners, \* click listeners bound to #themeToggle
    donations,      \* AppState.donations
    stats,          \* AppState.stats
    storageOK,      \* localStorage can be used in this page
    localStorage,   \* key -> {} (no item) or {text}
    returned,       \* what the latest operation returned to its caller
    lastOp,         \* the latest ledger operation and the ledger size before it
    log,            \* the inputs appended since the ledger was last emptied
    writes,         \* the setItem calls of DonationTracker's latest operation
    modals,         \* the modal elements of the document, in document order
    bodyOverflow    \* document.body.style.overflow

\* The part of the document the modal dialogs use.
page == <<modals, bodyOverflow>>

vars == <<now, pc, initialized, theme, themeListeners, donations, stats,
          storageOK, localStorage, returned, lastOp, log, writes, page>>

ZeroStats ==
    [totalRaised |-> Num(0), monthlyRaised |-> Num(0),
     toolsSupported |-> 0, contributors |-> 0]

(* ---------------------------- SafeStorage ----------------------------- *)

\* SafeStorage.getItem: the item, or null (here {}) when there is none or
\* localStorage throws.
GetItem(store, key) == IF storageOK THEN store[key] ELSE {}

\* SafeStorage.setItem: the store after the call; unchanged when
\* localStorage throws.
SetItem(store, key, value) ==
    IF storageOK THEN [store EXCEPT ![key] = {value}] ELSE store

\* JSON.stringify of a number: NaN is written as null.
JsonNumber(x) == IF x.nan THEN "null" ELSE ToString(x.v)

\* JSON.stringify of one record: its own properties, in order.
StringifyDonation(d) ==
    [id |-> d.id, amount |-> JsonNumber(d.amount), tool |-> d.tool,
     method |-> d.method, contributor |-> d.contributor,
     timestamp |-> d.timestamp, month |-> ToString(d.month),
     year |-> ToString(d.year)]

\* JSON.stringify(AppState.donations)
StringifyDonations(ds) == [i \in 1..Len(ds) |-> StringifyDonation(ds[i])]

\* JSON.stringify(AppState.stats)
StringifyStats(s) ==
    [totalRaised |-> JsonNumber(s.totalRaised),
     monthlyRaised |-> JsonNumber(s.monthlyRaised),
     toolsSupported |-> ToString(s.toolsSupported),
     contributors |-> ToString(s.contributors)]

(* --------------------------- DonationTracker --------------------------- *)

\* The reduce started from the first amount's successor: the first record
\* is left out.
RECURSIVE SumAmounts_SkipFirst(_)
SumAmounts_SkipFirst(ds) ==
    IF Len(ds) <= 1 THEN Num(0)
    ELSE Plus(SumAmounts_SkipFirst(SubSeq(ds, 1, Len(ds) - 1)), ds[Len(ds)].amount)

\* reduce((sum, d) => sum + d.amount, 0): left to right from 0.
RECURSIVE SumAmounts(_)
SumAmounts(ds) ==
    IF ds = <<>> THEN Num(0)
    ELSE Plus(SumAmounts(SubSeq(ds, 1, Len(ds) - 1)), ds[Len(ds)].amount)

\* The filter left out: every record counts as this month's.
ThisMonthDonations_NoFilter(ds, t) == ds

\* filter(d => d.month === currentMonth && d.year === currentYear)
ThisMonthDonations(ds, t) ==
    SelectSeq(ds, LAMBDA d : d.month = GetMonth(t) /\ d.year = GetFullYear(t))

\* The contributor count with the default name left out.
UniqueContributors_SkipAnonymous(ds) ==
    Cardinality({ds[i].contributor : i \in 1..Len(ds)} \ {"Anonymous"})

\* new Set(donations.map(d => d.contributor)).size
UniqueContributors(ds) ==
    Cardinality({ds[i].contributor : i \in 1..Len(ds)})

\* The tool count without the filter on 'General'.
SupportedTools_CountGeneral(ds) ==
    Cardinality({ds[i].tool : i \in 1..Len(ds)})

\* new Set(donations.filter(d => d.tool !== 'General').map(d => d.tool)).size
SupportedTools(ds) ==
    Cardinality({ds[i].tool : i \in {j \in 1..Len(ds) : ds[j].tool # "General"}})

\* The object updateStats assigns to AppState.stats, computed from the
\* records ds at clock reading t.
ComputeStats(ds, t) ==
    [totalRaised |-> SumAmounts(ds),
     monthlyRaised |-> SumAmounts(ThisMonthDonations(ds, t)),
     toolsSupported |-> SupportedTools(ds),
     contributors |-> UniqueContributors(ds)]

\* saveDonations: both keys written from the given in-memory values.
SaveDonations(store, ds, s) ==
    SetItem(SetItem(store, "donations", StringifyDonations(ds)),
            "stats", StringifyStats(s))

\* The setItem calls of saveDonations, in order.
SaveDonationsCalls(ds, s) ==
    <<[key |-> "donations", value |-> StringifyDonations(ds)],
      [key |-> "stats", value |-> StringifyStats(s)]>>

\* The setItem calls of loadDonations, in order.
LoadDonationsCalls ==
    <<[key |-> "donations", value |-> <<>>],
      [key |-> "stats", value |-> StringifyStats(ZeroStats)]>>

\* loadDonations: writes '[]' and the zero stats.
LoadDonationsStore(store) ==
    SetItem(SetItem(store, "donations", <<>>), "stats", StringifyStats(ZeroStats))

\* The record addDonation builds from its argument at clock reading t; ref
\* is the identity of the new object, its place in the order of creation.
NewDonation(donation, t, ref) ==
    [ref |-> ref,
     id |-> ToString(t),
     amount |-> ParseFloat(donation.amount),
     tool |-> OrDefault(donation.tool, "General"),
     method |-> OrDefault(donation.method, "Unknown"),
     contributor |-> OrDefault(donation.contributor, "Anonymous"),
     timestamp |-> ToISOString(t),
     month |-> GetMonth(t),
     year |-> GetFullYear(t)]

\* manualAddDonation: the object it hands to addDonation.
ManualDonation(in) ==
    [amount |-> in.amount, tool |-> in.tool, method |-> in.method,
     contributor |-> OrDefault(in.contributor, "Anonymous")]

\* The comparator with its operands exchanged: oldest first.
CompareTimestamps_Ascending(a, b) ==
    DateParse(a.timestamp) - DateParse(b.timestamp)

\* The comparator of getDonationHistory:
\* new Date(b.timestamp) - new Date(a.timestamp).
CompareTimestamps(a, b) == DateParse(b.timestamp) - DateParse(a.timestamp)

\* An insertion that puts x ahead of the elements it ties with.
RECURSIVE InsertStable_TiesFirst(_, _)
InsertStable_TiesFirst(s, x) ==
    IF s = <<>> THEN <<x>>
    ELSE IF DateParse(x.timestamp) - DateParse(Head(s).timestamp) < 0
         THEN <<Head(s)>> \o InsertStable_TiesFirst(Tail(s), x)
         ELSE <<x>> \o s

\* x put into the sorted s behind every element that does not sort after it.
RECURSIVE InsertStable(_, _)
InsertStable(s, x) ==
    IF s = <<>> THEN <<x>>
    ELSE IF CompareTimestamps(Head(s), x) <= 0
         THEN <<Head(s)>> \o InsertStable(Tail(s), x)
         ELSE <<x>> \o s

\* Array.prototype.sort with the comparator above: a stable sort.
RECURSIVE SortDonations(_)
SortDonations(ds) ==
    IF ds = <<>> THEN <<>>
    ELSE InsertStable(SortDonations(SubSeq(ds, 1, Len(ds) - 1)), ds[Len(ds)])

(* ----------------------------- operations ----------------------------- *)

\* What localStorage may hold from an earlier visit: nothing, or a ledger
\* and a theme.
PriorStores ==
    LET old == <<NewDonation([amount |-> <<"7">>, tool |-> "Alpha",
                              method |-> "Ko-fi", contributor |-> "Old"], 0, 1)>>
    IN  { [donations |-> {}, stats |-> {}, theme |-> {}],
          [donations |-> {StringifyDonations(old)},
           stats |-> {StringifyStats(ComputeStats(old, 0))},
           theme |-> {"dark"}] }

\* The script has run up to its last statements: AppState is built.
Init ==
    /\ now = 0
    /\ pc = "script"
    /\ initialized = FALSE
    /\ storageOK \in BOOLEAN
    /\ localStorage \in PriorStores
    /\ theme = (IF GetItem(localStorage, "theme") = {} THEN "light"
                ELSE CHOOSE x \in GetItem(localStorage, "theme") : TRUE)
    /\ themeListeners = 0
    /\ donations = <<>>
    /\ stats = ZeroStats
    /\ returned = <<>>
    /\ lastOp = [op |-> "none", n |-> 0]
    /\ log = <<>>
    /\ writes = <<>>
    /\ modals = <<>>
    /\ bodyOverflow = ""

\* initializeApp with a loadDonations that leaves the records in memory.
InitializeApp_KeepsLedger ==
    LET s1 == SetItem(localStorage, "theme", theme)
        st == ComputeStats(donations, now)
    IN  /\ theme' = theme
        /\ themeListeners' = themeListeners + 1
        /\ donations' = donations
        /\ stats' = st
        /\ localStorage' = SaveDonations(s1, donations, st)
        /\ returned' = <<>>
        /\ lastOp' = [op |-> "initialize", n |-> Len(donations)]
        /\ log' = log
        /\ writes' = SaveDonationsCalls(donations, st)
        /\ UNCHANGED page

\* initializeApp: ThemeManager.init, then DonationTracker.init, which is
\* loadDonations followed by updateStats.
InitializeApp ==
    LET s1 == SetItem(localStorage, "theme", theme)
        s2 == LoadDonationsStore(s1)
        st == ComputeStats(<<>>, now)
    IN  /\ theme' = theme
        /\ themeListeners' = themeListeners + 1
        /\ donations' = <<>>
        /\ stats' = st
        /\ localStorage' = SaveDonations(s2, <<>>, st)
        /\ returned' = <<>>
        /\ lastOp' = [op |-> "initialize", n |-> Len(donations)]
        /\ log' = <<>>
        /\ writes' = LoadDonationsCalls \o SaveDonationsCalls(<<>>, st)
        /\ UNCHANGED page

\* The script ends while the document is still loading: initializeApp is
\* left to DOMContentLoaded.
ScriptDefersInit ==
    /\ pc = "script"
    /\ pc' = "waitDCL"
    /\ UNCHANGED <<now, initialized, theme, themeListeners, donations, stats,
                   storageOK, localStorage, returned, lastOp, log, writes, page>>

\* The script ends with the document already loaded: initializeApp runs.
ScriptRunsInit ==
    /\ pc = "script"
    /\ InitializeApp
    /\ pc' = "waitLoad"
    /\ UNCHANGED <<now, initialized, storageOK>>

\* The DOMContentLoaded listener.
DOMContentLoaded ==
    /\ pc = "waitDCL"
    /\ InitializeApp
    /\ pc' = "waitLoad"
    /\ UNCHANGED <<now, initialized, storageOK>>

\* The window 'load' listener: it starts the 100 ms timer.
WindowLoad ==
    /\ pc = "waitLoad"
    /\ pc' = "timer"
    /\ UNCHANGED <<now, initialized, theme, themeListeners, donations, stats,
                   storageOK, localStorage, returned, lastOp, log, writes, page>>

\* The timer's callback.
BackupTimeout ==
    /\ pc = "timer"
    /\ pc' = "done"
    /\ IF ~initialized
       THEN InitializeApp /\ initialized' = TRUE
       ELSE UNCHANGED <<initialized, theme, themeListeners, donations, stats,
                        localStorage, returned, lastOp, log, writes, page>>
    /\ UNCHANGED <<now, storageOK>>

\* addDonation with updateStats called ahead of the push.
AddDonation_StatsBeforePush(in) ==
    /\ pc # "script"
    /\ Len(donations) < MaxDonations
    /\ LET d == NewDonation(ManualDonation(in), now, Len(donations) + 1)
           ds == Append(donations, d)
           st == ComputeStats(donations, now)
       IN  /\ donations' = ds
           /\ stats' = st
           /\ localStorage' = SaveDonations(localStorage, ds, st)
           /\ writes' = SaveDonationsCalls(ds, st)
    /\ returned' = <<>>
    /\ lastOp' = [op |-> "append", n |-> Len(donations)]
    /\ log' = Append(log, in)
    /\ UNCHANGED <<now, pc, initialized, theme, themeListeners, storageOK, page>>

\* addDonation as it would run were a throwing localStorage not caught:
\* the handler ends at its first setItem, after the push.
AddDonation_AbortsWhenStorageFails(in) ==
    /\ pc # "script"
    /\ Len(donations) < MaxDonations
    /\ LET d == NewDonation(ManualDonation(in), now, Len(donations) + 1)
           ds == Append(donations, d)
           s1 == SaveDonations(localStorage, ds, stats)
           st == IF storageOK THEN ComputeStats(ds, now) ELSE stats
       IN  /\ donations' = ds
           /\ stats' = st
           /\ localStorage' = SaveDonations(s1, ds, st)
           /\ writes' = IF storageOK
                        THEN SaveDonationsCalls(ds, stats) \o SaveDonationsCalls(ds, st)
                        ELSE SubSeq(SaveDonationsCalls(ds, stats), 1, 1)
    /\ returned' = <<>>
    /\ lastOp' = [op |-> "append", n |-> Len(donations)]
    /\ log' = Append(log, in)
    /\ UNCHANGED <<now, pc, initialized, theme, themeListeners, storageOK, page>>

\* window.addDonation(amount, tool, method, contributor): manualAddDonation,
\* then addDonation, which pushes, saves, updates the stats (and saves again).
AddDonation(in) ==
    /\ pc # "script"
    /\ Len(donations) < MaxDonations
    /\ LET d == NewDonation(ManualDonation(in), now, Len(donations) + 1)
           ds == Append(donations, d)
           s1 == SaveDonations(localStorage, ds, stats)
           st == ComputeStats(ds, now)
       IN  /\ donations' = ds
           /\ stats' = st
           /\ localStorage' = SaveDonations(s1, ds, st)
           /\ writes' = SaveDonationsCalls(ds, stats) \o SaveDonationsCalls(ds, st)
    /\ returned' = <<>>
    /\ lastOp' = [op |-> "append", n |-> Len(donations)]
    /\ log' = Append(log, in)
    /\ UNCHANGED <<now, pc, initialized, theme, themeListeners, storageOK, page>>

\* DonationTracker.getDonationHistory(): sorts AppState.donations where it
\* is and returns that array.
GetDonationHistory ==
    /\ pc # "script"
    /\ donations' = SortDonations(donations)
    /\ returned' = donations'
    /\ lastOp' = [op |-> "history", n |-> Len(donations)]
    /\ writes' = <<>>
    /\ UNCHANGED <<now, pc, initialized, theme, themeListeners, stats,
                   storageOK, localStorage, log, page>>

\* resetStats without its call of saveDonations.
ResetStats_NoSave ==
    /\ pc # "script"
    /\ donations' = <<>>
    /\ stats' = ZeroStats
    /\ returned' = <<>>
    /\ lastOp' = [op |-> "reset", n |-> Len(donations)]
    /\ log' = <<>>
    /\ writes' = <<>>
    /\ UNCHANGED <<now, pc, initialized, theme, themeListeners, storageOK,
                   localStorage, page>>

\* window.resetStats(): DonationTracker.resetStats.
ResetStats ==
    /\ pc # "script"
    /\ donations' = <<>>
    /\ stats' = ZeroStats
    /\ localStorage' = SaveDonations(localStorage, <<>>, ZeroStats)
    /\ returned' = <<>>
    /\ lastOp' = [op |-> "reset", n |-> Len(donations)]
    /\ log' = <<>>
    /\ writes' = SaveDonationsCalls(<<>>, ZeroStats)
    /\ UNCHANGED <<now, pc, initialized, theme, themeListeners, storageOK, page>>

\* Time passes with no operation.
Tick ==
    /\ now < MaxTime
    /\ now' \in (now + 1)..MaxTime
    /\ UNCHANGED <<pc, initialized, theme, themeListeners, donations, stats,
                   storageOK, localStorage, returned, lastOp, log, writes, page>>

Next ==
    \/ ScriptDefersInit
    \/ ScriptRunsInit
    \/ DOMContentLoaded
    \/ WindowLoad
    \/ BackupTimeout
    \/ \E in \in DonationInputs : AddDonation(in)
    \/ GetDonationHistory
    \/ ResetStats
    \/ Tick

Spec == Init /\ [][Next]_vars

(* --------------------------- theme and modals --------------------------- *)

\* ThemeManager.toggleTheme's choice of the new theme.
ToggleTheme(t) == IF t = "light" THEN "dark" ELSE "light"

\* The theme after n calls of toggleTheme, one per bound click listener.
RECURSIVE ToggleTimes(_, _)
ToggleTimes(t, n) == IF n = 0 THEN t ELSE ToggleTimes(ToggleTheme(t), n - 1)

\* The setItem calls of those n calls of setTheme.
RECURSIVE ToggleCalls(_, _)
ToggleCalls(t, n) ==
    IF n = 0 THEN <<>>
    ELSE <<[key |-> "theme", value |-> ToggleTheme(t)]>>
         \o ToggleCalls(ToggleTheme(t), n - 1)

\* One click on #themeToggle: every click listener bound by
\* ThemeManager.bindEvents runs toggleTheme.
ToggleClick ==
    /\ pc # "script"
    /\ theme' = ToggleTimes(theme, themeListeners)
    /\ localStorage' = IF themeListeners = 0 THEN localStorage
                       ELSE SetItem(localStorage, "theme", theme')
    /\ writes' = ToggleCalls(theme, themeListeners)
    /\ lastOp' = [op |-> "toggle", n |-> themeListeners]
    /\ UNCHANGED <<now, pc, initialized, themeListeners, donations, stats,
                   storageOK, returned, log, page>>

\* The ids of the modals the page opens.
PaymentModal == "toolPayment-ubertooth"
CryptoModal == "cryptoModal"
StatsModal == "statsModal"
PrivacyModal == "privacyModal"

\* The places of ms, in document order, whose element is shown.
ShownAt(ms) == {i \in 1..Len(ms) : ms[i].show}

\* ms without the elements of id.
RECURSIVE RemoveElement(_, _)
RemoveElement(ms, id) ==
    IF ms = <<>> THEN <<>>
    ELSE IF Head(ms).id = id THEN RemoveElement(Tail(ms), id)
    ELSE <<Head(ms)>> \o RemoveElement(Tail(ms), id)

\* ToolModalManager.createModal followed by showModal: an element of
\* this id is removed, a new one is appended to the body and shown.
CreateAndShow(ms, id) == Append(RemoveElement(ms, id), [id |-> id, show |-> TRUE])

\* ToolModalManager.hideModal on the elements of ms: the element of id
\* loses 'show'.
HideIn(ms, id) ==
    [i \in 1..Len(ms) |-> IF ms[i].id = id THEN [ms[i] EXCEPT !.show = FALSE]
                          ELSE ms[i]]

\* A handler that creates and shows the modal of id.
OpenModal(id) ==
    /\ modals' = CreateAndShow(modals, id)
    /\ bodyOverflow' = "hidden"

\* window.showPaymentOptions(toolId).
ShowPaymentOptions ==
    /\ pc # "script"
    /\ OpenModal(PaymentModal)
    /\ UNCHANGED <<now, pc, initialized, theme, themeListeners, donations,
                   stats, storageOK, localStorage, returned, lastOp, log,
                   writes>>

\* window.showCryptoModal(), the onclick of the payment modal's
\* cryptocurrency option.
ShowCryptoModal ==
    /\ pc # "script"
    /\ \E i \in ShownAt(modals) : modals[i].id = PaymentModal
    /\ OpenModal(CryptoModal)
    /\ UNCHANGED <<now, pc, initialized, theme, themeListeners, donations,
                   stats, storageOK, localStorage, returned, lastOp, log,
                   writes>>

\* window.showPrivacyModal().
ShowPrivacyModal ==
    /\ pc # "script"
    /\ OpenModal(PrivacyModal)
    /\ UNCHANGED <<now, pc, initialized, theme, themeListeners, donations,
                   stats, storageOK, localStorage, returned, lastOp, log,
                   writes>>

\* window.viewStats(): the history's first HistoryShown records go into
\* the stats modal.
ViewStats ==
    /\ pc # "script"
    /\ donations' = SortDonations(donations)
    /\ returned' = SubSeq(donations', 1,
                          IF Len(donations') < HistoryShown
                          THEN Len(donations') ELSE HistoryShown)
    /\ lastOp' = [op |-> "viewStats", n |-> Len(donations)]
    /\ writes' = <<>>
    /\ OpenModal(StatsModal)
    /\ UNCHANGED <<now, pc, initialized, theme, themeListeners, stats,
                   storageOK, localStorage, log>>

\* A click on a shown modal's close button or on its backdrop:
\* ToolModalManager.hideModal(id).
HideModal(id) ==
    /\ \E i \in ShownAt(modals) : modals[i].id = id
    /\ modals' = HideIn(modals, id)
    /\ bodyOverflow' = ""
    /\ UNCHANGED <<now, pc, initialized, theme, themeListeners, donations,
                   stats, storageOK, localStorage, returned, lastOp, log,
                   writes>>

\* The first element of ms matching '.modal.show'.
FirstShown(ms) == CHOOSE i \in ShownAt(ms) : \A j \in ShownAt(ms) : i <= j

\* The page after n keydown listeners have handled one Escape: each hides
\* the first shown modal it finds.
RECURSIVE EscapeHandled(_, _)
EscapeHandled(pg, n) ==
    IF n = 0 \/ ShownAt(pg[1]) = {} THEN pg
    ELSE EscapeHandled(<<HideIn(pg[1], pg[1][FirstShown(pg[1])].id), "">>,
                       n - 1)

\* One press of Escape: initializeApp bound one keydown listener per run,
\* as many as ThemeManager.bindEvents bound click listeners.
EscapeKey ==
    /\ pc # "script"
    /\ LET pg == EscapeHandled(page, themeListeners)
       IN  modals' = pg[1] /\ bodyOverflow' = pg[2]
    /\ UNCHANGED <<now, pc, initialized, theme, themeListeners, donations,
                   stats, storageOK, localStorage, returned, lastOp, log,
                   writes>>

\* The timer hideModal started for a hidden element: modal.remove().
RemoveTimeout ==
    /\ \E i \in 1..Len(modals) :
          /\ ~modals[i].show
          /\ modals' = RemoveElement(modals, modals[i].id)
    /\ UNCHANGED <<now, pc, initialized, theme, themeListeners, donations,
                   stats, storageOK, localStorage, returned, lastOp, log,
                   writes, bodyOverflow>>

NextUI ==
    \/ ScriptDefersInit
    \/ ScriptRunsInit
    \/ DOMContentLoaded
    \/ WindowLoad
    \/ BackupTimeout
    \/ ToggleClick
    \/ ShowPaymentOptions
    \/ ShowCryptoModal
    \/ ShowPrivacyModal
    \/ ViewStats
    \/ \E id \in {PaymentModal, CryptoModal, PrivacyModal, StatsModal} :
          HideModal(id)
    \/ EscapeKey
    \/ RemoveTimeout

SpecUI == Init /\ [][NextUI]_vars

(* ------------------------ the ledger's contract ------------------------ *)

\* The sum of the amounts of the records of ds at the places in S.
RECURSIVE AmountOver(_, _)
AmountOver(ds, S) ==
    IF S = {} THEN Num(0)
    ELSE LET i == CHOOSE j \in S : TRUE
         IN  Plus(ds[i].amount, AmountOver(ds, S \ {i}))

\* The places of ds whose stored month and year are those of clock reading t.
InMonthOf(ds, t) ==
    {i \in 1..Len(ds) : ds[i].month = GetMonth(t) /\ ds[i].year = GetFullYear(t)}

\* AggregateStats as the data model defines it, for records ds at time t.
AggregateOf(ds, t) ==
    [totalRaised |-> AmountOver(ds, 1..Len(ds)),
     monthlyRaised |-> AmountOver(ds, InMonthOf(ds, t)),
     toolsSupported |-> Cardinality({ds[i].tool : i \in 1..Len(ds)} \ {"General"}),
     contributors |-> Cardinality({ds[i].contributor : i \in 1..Len(ds)})]

\* A step of an operation that runs initializeApp.
InitializeStep == ScriptRunsInit \/ DOMContentLoaded \/ BackupTimeout

\* A step of append.
AppendStep == \E in \in DonationInputs : AddDonation(in)

\* C1 (as claimed): in every state reached once start-up is over, the stored
\* stats equal what recomputation would give from the current records at
\* the current time.
C1_StatsNeverStale ==
    pc = "done" => stats = AggregateOf(donations, now)

\* C1 (amended): every initialize, append and reset leaves the stored stats
\* equal to the aggregate of the records as they are then, at the time of
\* that operation.
C1_StatsFreshAfterMutation ==
    [][(InitializeStep \/ AppendStep \/ ResetStats)
        => stats' = AggregateOf(donations', now')]_vars

\* C1 witness: an append has recomputed the stats of a ledger that holds a
\* record of an earlier month.
C1_Witness ==
    /\ lastOp.op = "append"
    /\ Len(donations) >= 2
    /\ InMonthOf(donations, now) \notin {{}, 1..Len(donations)}
    /\ stats = AggregateOf(donations, now)
    /\ stats.monthlyRaised # stats.totalRaised

\* The records of a ledger, as a set.
Records(ds) == {ds[i] : i \in 1..Len(ds)}

\* A step of the initialization at process start.
ProcessStartStep == ScriptRunsInit \/ DOMContentLoaded

\* C2: each append lengthens the record sequence by exactly one, and except
\* in reset() and the initialization at process start every record of the
\* sequence is still in it, with the same fields, after the step.
C2_AppendOnly ==
    [][/\ AppendStep => Len(donations') = Len(donations) + 1
       /\ ~(ResetStats \/ ProcessStartStep)
            => Records(donations) \subseteq Records(donations')]_vars

\* The amounts of the logged inputs after coercion, summed in order.
RECURSIVE CoercedSum(_)
CoercedSum(ins) ==
    IF ins = <<>> THEN Num(0)
    ELSE Plus(ParseFloat(Head(ins).amount), CoercedSum(Tail(ins)))

\* C3: totalRaised is the sum of the coerced amounts of the inputs appended
\* since the ledger was last initialized or reset.
C3_TotalIsSumOfAppended == stats.totalRaised = CoercedSum(log)

\* C3 witness: 25 then 10 have been appended and totalRaised is 35.
C3_Witness ==
    /\ Len(log) = 2
    /\ log[1].amount = <<"2", "5">>
    /\ log[2].amount = <<"1", "0">>
    /\ lastOp.op = "append"
    /\ stats.totalRaised = Num(35)

\* A step of an operation that recomputes the stats (updateStats).
RecomputeStep == InitializeStep \/ AppendStep

\* C4: after a recomputation monthlyRaised is the sum over exactly the
\* records whose stored month and year are those of the calendar at that
\* time, and totalRaised is the sum over all records, earlier months included.
C4_MonthlyIsCurrentMonthOnly ==
    [][RecomputeStep
        => /\ stats'.monthlyRaised
                = AmountOver(donations', InMonthOf(donations', now'))
           /\ stats'.totalRaised = AmountOver(donations', 1..Len(donations'))]_vars

\* C4 witness: 10 has just been appended to a ledger holding 25 from the
\* month before; monthlyRaised is 10 and totalRaised is 35.
C4_Witness ==
    /\ lastOp.op = "append"
    /\ Len(donations) = 2
    /\ \E d \in Records(donations) : d.ref = 2 /\ d.timestamp = ToISOString(now)
    /\ \E d \in Records(donations) : d.ref = 1 /\ d.month # GetMonth(now)
    /\ stats.monthlyRaised = Num(10)
    /\ stats.totalRaised = Num(35)

\* C5: toolsSupported is the number of distinct tools of the records other
\* than "General", and a record appended with no tool is stored with tool
\* "General".
C5_ToolsSupportedExcludesGeneral ==
    /\ stats.toolsSupported
         = Cardinality({d.tool : d \in Records(donations)} \ {"General"})
    /\ \A d \in Records(donations) :
         log[d.ref].tool \in {Undefined, ""} => d.tool = "General"

\* C5 witness: two "Alpha" records and one with no tool give toolsSupported 1.
C5_Witness ==
    /\ Len(log) = 3
    /\ log[1].tool = "Alpha" /\ log[2].tool = "Alpha" /\ log[3].tool = Undefined
    /\ stats.toolsSupported = 1

\* C6: contributors is the number of distinct contributor names of the
\* records, "Anonymous" among them, and a record appended with no
\* contributor is stored as "Anonymous".
C6_ContributorsCountsAnonymous ==
    /\ stats.contributors
         = Cardinality({d.contributor : d \in Records(donations)})
    /\ \A d \in Records(donations) :
         log[d.ref].contributor \in {Undefined, ""} => d.contributor = "Anonymous"

\* C6 witness: three appends with no contributor give contributors 1.
C6_Witness ==
    /\ Len(log) = 3
    /\ \A i \in 1..3 : log[i].contributor = Undefined
    /\ \A d \in Records(donations) : d.contributor = "Anonymous"
    /\ stats.contributors = 1

\* The places in the order of appending of the records of a sequence.
RefsOf(ds) == [i \in 1..Len(ds) |-> ds[i].ref]

\* Every record of ds was appended at a later clock reading than the
\* records appended before it.
AppendedEverLater(ds) ==
    \A a, b \in Records(ds) :
        a.ref < b.ref => DateParse(a.timestamp) < DateParse(b.timestamp)

\* C7 (as claimed): history() of a ledger of three records A, B, C, appended
\* in that order, is [C, B, A], whatever the times of the appends.
C7_HistoryReversesAppends ==
    (lastOp.op = "history" /\ Len(returned) = 3)
        => RefsOf(returned) = <<3, 2, 1>>

\* C7 (amended): history() of a ledger of three records A, B, C is
\* [C, B, A] when each was appended at a later clock reading than the one
\* before it.
C7_HistoryReversesLaterAppends ==
    (lastOp.op = "history" /\ Len(returned) = 3 /\ AppendedEverLater(returned))
        => RefsOf(returned) = <<3, 2, 1>>

\* C7 witness: history() has returned three records appended at three
\* different clock readings.
C7_Witness ==
    /\ lastOp.op = "history"
    /\ Len(returned) = 3
    /\ AppendedEverLater(returned)
    /\ RefsOf(returned) = <<3, 2, 1>>

\* C8: history() returns every record, later timestamps first, and records
\* of equal timestamp in the order they were appended.
C8_HistoryNewestFirstStable ==
    lastOp.op = "history"
        => /\ Len(returned) = lastOp.n
           /\ {returned[i].ref : i \in 1..Len(returned)} = 1..lastOp.n
           /\ \A i, j \in 1..Len(returned) :
                i < j =>
                  /\ DateParse(returned[i].timestamp)
                       >= DateParse(returned[j].timestamp)
                  /\ returned[i].timestamp = returned[j].timestamp
                       => returned[i].ref < returned[j].ref

\* C8 witness: history() has returned three records, two of them of one
\* timestamp and behind a later one.
C8_Witness ==
    /\ lastOp.op = "history"
    /\ Len(returned) = 3
    /\ returned[1].timestamp # returned[2].timestamp
    /\ returned[2].timestamp = returned[3].timestamp
    /\ RefsOf(returned) = <<3, 1, 2>>

\* C9: history() leaves the stored record sequence, in content and order,
\* the stored stats and the persisted keys as they were.
C9_HistoryReadOnly ==
    [][GetDonationHistory
        => /\ donations' = donations
           /\ stats' = stats
           /\ localStorage' = localStorage]_vars

\* The ledger in memory is empty, its stats are zero and history() of it is
\* empty.
LedgerCleared ==
    /\ donations = <<>>
    /\ stats = ZeroStats
    /\ SortDonations(donations) = <<>>

\* The persisted keys hold the empty ledger and the zero stats.
KeysCleared ==
    /\ localStorage.donations = {<<>>}
    /\ localStorage.stats = {StringifyStats(ZeroStats)}

\* C10 (as claimed): reset() leaves the ledger empty, the stats zero and the
\* persisted keys holding the empty and zero values.
C10_ResetClearsAll ==
    [][ResetStats => (LedgerCleared' /\ KeysCleared')]_vars

\* C10 (amended): reset() and initialize() both leave the ledger empty and
\* the stats zero; the persisted keys hold the empty and zero values when
\* storage is available, and are left as they were when it is not.
C10_ResetClearsAllStorageWilling ==
    [][(ResetStats \/ InitializeStep)
        => /\ LedgerCleared'
           /\ storageOK => KeysCleared'
           /\ ~storageOK => /\ localStorage'.donations = localStorage.donations
                            /\ localStorage'.stats = localStorage.stats]_vars

\* C10 witness: reset() has emptied a ledger of two or more records, with
\* storage available.
C10_Witness ==
    /\ lastOp.op = "reset"
    /\ lastOp.n >= 2
    /\ storageOK
    /\ LedgerCleared
    /\ KeysCleared

\* The ledger in memory and the two persisted keys.
LedgerState == <<donations, stats, localStorage.donations, localStorage.stats>>

\* C11 (as claimed): whatever was persisted or in memory before,
\* initialize() leaves the ledger empty, the stats zero and both keys
\* holding the empty and zero values.
C11_InitializeOverwrites ==
    [][InitializeStep => (LedgerCleared' /\ KeysCleared')]_vars

\* C11 (amended): whatever was persisted or in memory before, initialize()
\* leaves the ledger empty and the stats zero and, when storage is
\* available, both keys holding the empty and zero values; an initialize()
\* that follows an initialize() changes none of them.
C11_InitializeOverwritesStorageWilling ==
    [][InitializeStep
        => /\ LedgerCleared'
           /\ storageOK => KeysCleared'
           /\ lastOp.op = "initialize" => LedgerState' = LedgerState]_vars

\* C11 witness: initialize() has run where an earlier visit had left a
\* ledger in storage and records were in memory, and storage is available.
C11_Witness ==
    /\ lastOp.op = "initialize"
    /\ lastOp.n >= 1
    /\ storageOK
    /\ localStorage.theme = {"dark"}
    /\ LedgerCleared
    /\ KeysCleared

\* ds2 holds the records of ds1, later timestamps first and equal
\* timestamps in the order they have in ds1.
StablyNewestFirst(ds2, ds1) ==
    /\ Len(ds2) = Len(ds1)
    /\ Records(ds2) = Records(ds1)
    /\ \A i, j \in 1..Len(ds2) :
         i < j => DateParse(ds2[i].timestamp) >= DateParse(ds2[j].timestamp)
    /\ \A i, j \in 1..Len(ds1) :
         (i < j /\ ds1[i].timestamp = ds1[j].timestamp)
            => \E k, l \in 1..Len(ds2) : k < l /\ ds2[k] = ds1[i] /\ ds2[l] = ds1[j]

\* What each ledger operation does to the records and stats in memory, as a
\* function of the memory before it, its input and the clock alone.
InMemoryEffect ==
    /\ (InitializeStep \/ ResetStats)
         => (donations' = <<>> /\ stats' = ZeroStats)
    /\ \A in \in DonationInputs :
         AddDonation(in)
           => /\ donations'
                   = Append(donations,
                            NewDonation(ManualDonation(in), now, Len(donations) + 1))
              /\ stats' = AggregateOf(donations', now')
    /\ GetDonationHistory
         => /\ StablyNewestFirst(donations', donations)
            /\ returned' = donations'
            /\ stats' = stats

\* C12: with storage failing on every access each ledger operation runs to
\* its end, and its effect on the records and stats in memory is the one it
\* has with storage available: the same function of memory, input and clock.
C12_MemoryUnaffectedByStorage ==
    [][/\ InMemoryEffect
       /\ ~storageOK => localStorage' = localStorage]_vars

\* C12 witness: with storage failing, an append has brought the ledger to
\* two or more records with fresh stats, and the keys still hold what an
\* earlier visit left.
C12_Witness ==
    /\ ~storageOK
    /\ lastOp.op = "append"
    /\ Len(donations) >= 2
    /\ stats = AggregateOf(donations, now)
    /\ localStorage.donations # {}
    /\ localStorage.donations # {StringifyDonations(donations)}

\* C13: every value an append writes to the `stats` key is the aggregate of
\* the record sequence that already holds the new record: the record is
\* added and the stats recomputed before anything is persisted.
C13_AppendPersistsFreshStats ==
    [][AppendStep
        => \A i \in 1..Len(writes') :
             writes'[i].key = "stats"
               => writes'[i].value
                    = StringifyStats(AggregateOf(donations', now'))]_vars

\* A step of a ledger operation on a page whose initializeApp has run, or
\* of that initialization itself.
LedgerOperationStep ==
    \/ InitializeStep
    \/ /\ pc \notin {"script", "waitDCL"}
       /\ (AppendStep \/ GetDonationHistory \/ ResetStats)

\* C14: with storage available, after every ledger operation key
\* `donations` holds the serialization of the records in memory, in their
\* current order, and key `stats` that of the stats in memory.
C14_KeysMirrorMemory ==
    [][(storageOK /\ LedgerOperationStep)
        => /\ localStorage'.donations = {StringifyDonations(donations')}
           /\ localStorage'.stats = {StringifyStats(stats')}]_vars

\* C15: initializeApp runs at most once per page load, so the click
\* listener of the theme toggle (and every other listener initializeApp
\* binds) is bound at most once.
C15_InitializeAppRunsOnce == themeListeners <= 1

\* C16: once the page has loaded, one click on the theme toggle leaves
\* the theme different from what it was.
C16_ClickTogglesTheme == [][(ToggleClick /\ pc = "done") => theme' # theme]_vars

\* C17: whenever a modal is shown, the body's overflow is 'hidden'.
C17_ShownModalLocksScroll == ShownAt(modals) # {} => bodyOverflow = "hidden"

====
